---- MODULE Spec2Model ----
(***************************************************************************)
(* Model of server.py, the desktop-controller MCP server.                  *)
(*                                                                         *)
(* main() first runs _check_macos_permissions() and then the stdio         *)
(* request loop.  The loop serves one tool call at a time: the parameters  *)
(* are validated against the Field(...) constraints, the handler body      *)
(* issues its platform calls one after the other, and the first call that  *)
(* raises ends the handler (there is no try/except anywhere in the file).  *)
(*                                                                         *)
(* Conventions                                                             *)
(*   - durations and intervals are fixed-point, in milliseconds;           *)
(*   - an Optional[int] is <<>> (None) or <<v>>;                           *)
(*   - a text is a sequence of code points;                                *)
(*   - every call into pyautogui / subprocess / ctypes is one step that    *)
(*     either completes or raises;                                         *)
(*   - record constructors list their fields in the order TLC normalises   *)
(*     them to, so that no worker ever reorders a record in place.         *)
(***************************************************************************)
EXTENDS Integers, Sequences, FiniteSets, TLC

VARIABLES
    system,      \* platform.system()
    trusted,     \* what AXIsProcessTrusted() answers (FALSE where there is none)
    mainpc,      \* position of main()
    startupLog,  \* side effects of permission priming, in order
    pc,          \* position of the request loop
    req,         \* the tool call being served
    todo,        \* platform calls the handler body has still to issue
    events,      \* platform calls of the current tool call that completed
    result,      \* the reply of the current tool call
    held         \* mouse buttons the OS currently sees as held down

vars == <<system, trusted, mainpc, startupLog, pc, req, todo, events, result, held>>

\* ------------------------------------------------------------------------
\* Bounds of the model
\* ------------------------------------------------------------------------
MaxTextLen == 2
MaxKeys == 3
MaxCoord == 1
MaxClicks == 2
MaxDim == 3

\* ------------------------------------------------------------------------
\* Small helpers
\* ------------------------------------------------------------------------
None == <<>>

Some(v) == <<v>>

IsNone(o) == o = None

Opt(S) == {None} \cup {Some(v) : v \in S}

Range(s) == {s[i] : i \in 1..Len(s)}

Reverse(s) == [i \in 1..Len(s) |-> s[Len(s) + 1 - i]]

SeqsUpTo(S, n) == UNION {[1..k -> S] : k \in 0..n}

Abs(n) == IF n < 0 THEN -n ELSE n

\* ------------------------------------------------------------------------
\* Environment
\* ------------------------------------------------------------------------
Systems == {"Darwin", "Linux", "Windows", "FreeBSD"}

\* ------------------------------------------------------------------------
\* Permission priming: _check_macos_permissions
\* ------------------------------------------------------------------------
NoReq == [tool |-> "none"]

NoResult == [status |-> "none"]

\* `if platform.system() != "Darwin": return`
PrimingApplies(sys) == sys = "Darwin"

\* variant: the pane is opened without looking at the flag
ShouldOpenPaneAlways(flag) == TRUE

\* `if not app_services.AXIsProcessTrusted():` guards the diagnostic and the
\* settings pane
ShouldOpenPane(flag) == ~flag

\* what the routine does after the accessibility block: only the static
\* screen-recording hint, no CGWindowListCreateImage probe
ScreenRecordingEffects == <<"print_hint">>

\* main() calls the priming routine
Main_Enter ==
    /\ mainpc = "main"
    /\ mainpc' = IF PrimingApplies(system) THEN "load_library" ELSE "run"
    /\ UNCHANGED <<system, trusted, startupLog, pc, req, todo, events, result, held>>

\* ctypes.cdll.LoadLibrary(ctypes.util.find_library("ApplicationServices"));
\* an exception leaves _check_macos_permissions and main (no handler)
LoadLibrary ==
    /\ mainpc = "load_library"
    /\ \E ok \in BOOLEAN :
          mainpc' = IF ok THEN "query" ELSE "crashed"
    /\ UNCHANGED <<system, trusted, startupLog, pc, req, todo, events, result, held>>

\* app_services.AXIsProcessTrusted(), then the diagnostic on stderr
QueryTrust ==
    /\ mainpc = "query"
    /\ IF ShouldOpenPane(trusted)
          THEN /\ startupLog' = startupLog \o <<"AXIsProcessTrusted", "print_diagnostic">>
               /\ mainpc' = "open_pane"
          ELSE /\ startupLog' = Append(startupLog, "AXIsProcessTrusted")
               /\ mainpc' = "hint"
    /\ UNCHANGED <<system, trusted, pc, req, todo, events, result, held>>

\* subprocess.Popen(["open", "x-apple.systempreferences:..."]); Popen raises
\* when the executable cannot be started
OpenPane ==
    /\ mainpc = "open_pane"
    /\ \E ok \in BOOLEAN :
          IF ok
             THEN /\ startupLog' = Append(startupLog, "open_pane")
                  /\ mainpc' = "hint"
             ELSE /\ startupLog' = startupLog
                  /\ mainpc' = "crashed"
    /\ UNCHANGED <<system, trusted, pc, req, todo, events, result, held>>

\* the screen-recording block
PrintHint ==
    /\ mainpc = "hint"
    /\ startupLog' = startupLog \o ScreenRecordingEffects
    /\ mainpc' = "run"
    /\ UNCHANGED <<system, trusted, pc, req, todo, events, result, held>>

\* mcp.run(transport="stdio")
McpRun ==
    /\ mainpc = "run"
    /\ mainpc' = "serving"
    /\ pc' = "idle"
    /\ UNCHANGED <<system, trusted, startupLog, req, todo, events, result, held>>

\* ------------------------------------------------------------------------
\* Parameter values the tool calls are drawn from
\* ------------------------------------------------------------------------
Coords == 0..MaxCoord

Buttons == {"left", "middle", "right", "foo"}

\* the names pyautogui maps to a physical button; any other name makes the
\* library call raise
KnownButtons == {"left", "middle", "right"}

\* durations around the drag floor, and durations and intervals around zero
DragDurations == {0, 99, 100, 500}

Durations == {-1, 0, 250}

ClickCounts == 0..MaxClicks

ScrollCounts == (-MaxClicks)..MaxClicks

\* code points on both sides of the ASCII boundary
CodePoints == {65, 127, 128}

Texts == SeqsUpTo(CodePoints, MaxTextLen)

Keys == {"ctrl", "shift", "t"}

KeySeqs == SeqsUpTo(Keys, MaxKeys)

ScreenSize == <<MaxDim + 2, MaxDim + 1>>

\* ------------------------------------------------------------------------
\* Field(...) constraints, enforced before the handler body runs
\* ------------------------------------------------------------------------
MoveMinDuration == 0

ClicksMin == 1

DragMinDuration == 100

IntervalMin == 0

PressesMin == 1

\* variant: the drag duration is only required to be non-negative (ge=0.0)
DragDurationOkNonNegative(d) == d >= 0

\* duration of desktop_drag: Field(default=0.5, ge=0.1)
DragDurationOk(d) == d >= DragMinDuration

\* the parameters of a call that fail their Field constraint; button and
\* keys are plain `str` fields without a constraint
InvalidFields(r) ==
    CASE r.tool = "move_mouse" -> IF r.duration >= MoveMinDuration THEN {} ELSE {"duration"}
      [] r.tool = "click"      -> IF r.clicks >= ClicksMin THEN {} ELSE {"clicks"}
      [] r.tool = "drag"       -> IF DragDurationOk(r.duration) THEN {} ELSE {"duration"}
      [] r.tool = "type_text"  -> IF r.interval >= IntervalMin THEN {} ELSE {"interval"}
      [] r.tool = "press_key"  -> IF r.presses >= PressesMin THEN {} ELSE {"presses"}
      [] OTHER                 -> {}

\* ------------------------------------------------------------------------
\* Platform calls
\* ------------------------------------------------------------------------
Call(name, a) == [op |-> name, args |-> a]

\* pyautogui.write(text, interval=interval): one key event per character
WriteEvents(text, interval) ==
    [i \in 1..Len(text) |-> Call("key", <<text[i], interval>>)]

\* pyautogui.hotkey(*keys): keys go down in order and come up in reverse
HotkeyEvents(keys) ==
    [i \in 1..Len(keys) |-> Call("keyDown", <<keys[i]>>)]
      \o [i \in 1..Len(keys) |-> Call("keyUp", <<Reverse(keys)[i]>>)]

\* pyautogui.drag(dx, dy, duration=, button=): hold, move, release
DragEvents(dx, dy, duration, button) ==
    << Call("mouseDown", <<button>>),
       Call("moveRel", <<dx, dy, duration>>),
       Call("mouseUp", <<button>>) >>

\* a call that names a button the library does not know raises
CanComplete(c) ==
    /\ c.op # "raise"
    /\ c.op \in {"mouseDown", "mouseUp"} => c.args[1] \in KnownButtons
    /\ c.op = "click" => c.args[3] \in KnownButtons

\* the buttons held after a completed call
HeldAfter(h, c) ==
    CASE c.op = "mouseDown" -> h \cup {c.args[1]}
      [] c.op = "mouseUp"   -> h \ {c.args[1]}
      [] OTHER              -> h

\* ------------------------------------------------------------------------
\* Tool handlers: the platform calls of the body, in order, and the value
\* returned when all of them completed
\* ------------------------------------------------------------------------
Handler(c, v) == [calls |-> c, ret |-> v]

desktop_get_screen_size(r) ==
    Handler(<<Call("size", <<>>)>>, <<"Screen size", ScreenSize>>)

desktop_get_mouse_position(r) ==
    Handler(<<Call("position", <<>>)>>, <<"Mouse position">>)

desktop_move_mouse(r) ==
    Handler(<< Call(IF r.relative THEN "moveRel" ELSE "moveTo", <<r.x, r.y, r.duration>>),
               Call("position", <<>>) >>,
            <<"Moved mouse to">>)

desktop_click(r) ==
    Handler(<< Call("click", <<r.x, r.y, r.button, r.clicks>>),
               Call("position", <<>>) >>,
            <<IF r.clicks = 2 THEN "Double-clicked" ELSE "Clicked", r.button>>)

\* variant: the sign convention of the report is inverted
ScrollDirectionInverted(clicks) == IF clicks < 0 THEN "up" ELSE "down"

\* direction = "up" if clicks > 0 else "down"
ScrollDirection(clicks) == IF clicks > 0 THEN "up" ELSE "down"

\* pos_str
ScrollPos(x, y) ==
    IF ~IsNone(x) /\ ~IsNone(y) THEN <<x[1], y[1]>> ELSE <<"current position">>

desktop_scroll(r) ==
    Handler(<<Call("scroll", <<r.clicks, r.x, r.y>>)>>,
            [direction |-> ScrollDirection(r.clicks),
             magnitude |-> Abs(r.clicks),
             at        |-> ScrollPos(r.x, r.y)])

\* pyautogui.moveTo(start_x, start_y, duration=0.1)
MoveToStartDuration == 100

\* variant: the end point is handed to the relative drag instead of the offset
desktop_drag_absolute(r) ==
    Handler(<<Call("moveTo", <<r.start_x, r.start_y, MoveToStartDuration>>)>>
              \o DragEvents(r.end_x, r.end_y, r.duration, r.button),
            <<"Dragged", <<r.start_x, r.start_y>>, <<r.end_x, r.end_y>>>>)

desktop_drag(r) ==
    Handler(<<Call("moveTo", <<r.start_x, r.start_y, MoveToStartDuration>>)>>
              \o DragEvents(r.end_x - r.start_x, r.end_y - r.start_y,
                            r.duration, r.button),
            <<"Dragged", <<r.start_x, r.start_y>>, <<r.end_x, r.end_y>>>>)

\* variant: the ASCII test is off by one (code point 128 passes)
IsAsciiOffByOne(text) == \A i \in 1..Len(text) : text[i] <= 128

\* str.isascii(): every code point is below 128 (true of the empty string)
IsAscii(text) == \A i \in 1..Len(text) : text[i] < 128

\* keys of the paste shortcut on each recognised platform
PasteKeys(sys) == IF sys = "Darwin" THEN <<"command", "v">> ELSE <<"ctrl", "v">>

\* variant: the copy command runs without check=True
CopyCallUnchecked(text, sys) ==
    CASE sys = "Darwin"  -> Call("copy", <<"pbcopy", "utf-8", text, FALSE>>)
      [] sys = "Linux"   -> Call("copy", <<"xclip", "utf-8", text, FALSE>>)
      [] sys = "Windows" -> Call("copy", <<"clip", "utf-16-le", text, FALSE>>)

\* subprocess.run([...], input=text.encode(...), check=True); the arguments
\* are the command, the encoding, the text and the check flag
CopyCall(text, sys) ==
    CASE sys = "Darwin"  -> Call("copy", <<"pbcopy", "utf-8", text, TRUE>>)
      [] sys = "Linux"   -> Call("copy", <<"xclip", "utf-8", text, TRUE>>)
      [] sys = "Windows" -> Call("copy", <<"clip", "utf-16-le", text, TRUE>>)

\* _type_via_clipboard: copy, then paste; RuntimeError on any other platform
type_via_clipboard(text, sys) ==
    IF sys \in {"Darwin", "Linux", "Windows"}
       THEN <<CopyCall(text, sys)>> \o HotkeyEvents(PasteKeys(sys))
       ELSE <<Call("raise", <<"Unsupported platform for clipboard paste", sys>>)>>

desktop_type_text(r) ==
    Handler(IF IsAscii(r.text)
               THEN WriteEvents(r.text, r.interval)
               ELSE type_via_clipboard(r.text, system),
            <<"Typed", Len(r.text)>>)

desktop_press_key(r) ==
    Handler(<<Call("press", <<r.key, r.presses>>)>>,
            <<"Pressed", r.key, IF r.presses > 1 THEN <<r.presses>> ELSE <<>>>>)

\* "+".join(keys)
JoinPlus(keys) ==
    [i \in 1..(IF Len(keys) = 0 THEN 0 ELSE 2 * Len(keys) - 1) |->
        IF i % 2 = 1 THEN keys[(i + 1) \div 2] ELSE "+"]

\* variant: the keys are handed over in reverse
HotkeyArgsReversed(keys) == Reverse(keys)

\* the keys as handed to pyautogui.hotkey(*keys)
HotkeyArgs(keys) == keys

desktop_hotkey(r) ==
    Handler(HotkeyEvents(HotkeyArgs(r.keys)), <<"Pressed hotkey", JoinPlus(r.keys)>>)

\* region is set only when all four fields are given
RegionOf(rx, ry, rw, rh) ==
    IF \A v \in {rx, ry, rw, rh} : ~IsNone(v)
       THEN <<rx[1], ry[1], rw[1], rh[1]>>
       ELSE None

\* size of the image pyautogui.screenshot(region=region) returns
CaptureSize(region) ==
    IF IsNone(region) THEN ScreenSize ELSE <<region[3], region[4]>>

\* variant: halving rounds up instead of down
OutputSizeRoundedUp(size, reduce) ==
    IF reduce THEN <<(size[1] + 1) \div 2, (size[2] + 1) \div 2>> ELSE size

\* (screenshot.width // 2, screenshot.height // 2) when reduce_resolution
OutputSize(size, reduce) ==
    IF reduce THEN <<size[1] \div 2, size[2] \div 2>> ELSE size

desktop_screenshot(r) ==
    LET region == RegionOf(r.region_x, r.region_y, r.region_width, r.region_height)
        out    == OutputSize(CaptureSize(region), r.reduce_resolution)
    IN  Handler(<<Call("screenshot", <<region>>)>>
                  \o (IF r.reduce_resolution THEN <<Call("resize", out)>> ELSE <<>>)
                  \o <<Call("save", <<"PNG">>)>>,
                [size |-> out, format |-> "png"])

Dispatch(r) ==
    CASE r.tool = "get_screen_size"    -> desktop_get_screen_size(r)
      [] r.tool = "get_mouse_position" -> desktop_get_mouse_position(r)
      [] r.tool = "move_mouse"         -> desktop_move_mouse(r)
      [] r.tool = "click"              -> desktop_click(r)
      [] r.tool = "scroll"             -> desktop_scroll(r)
      [] r.tool = "drag"               -> desktop_drag(r)
      [] r.tool = "type_text"          -> desktop_type_text(r)
      [] r.tool = "press_key"          -> desktop_press_key(r)
      [] r.tool = "hotkey"             -> desktop_hotkey(r)
      [] r.tool = "screenshot"         -> desktop_screenshot(r)

\* ------------------------------------------------------------------------
\* The request loop
\* ------------------------------------------------------------------------
Init ==
    /\ system \in Systems
    /\ trusted \in (IF system = "Darwin" THEN BOOLEAN ELSE {FALSE})
    /\ mainpc = "main"
    /\ startupLog = <<>>
    /\ pc = "off"
    /\ req = NoReq
    /\ todo = <<>>
    /\ events = <<>>
    /\ result = NoResult
    /\ held = {}

\* the loop is idle and can take a tool call
Idle == mainpc = "serving" /\ pc = "idle"

Call_get_screen_size ==
    /\ Idle
    /\ req' = [tool |-> "get_screen_size"]
    /\ pc' = "validate"
    /\ UNCHANGED <<system, trusted, mainpc, startupLog, todo, events, result, held>>

Call_get_mouse_position ==
    /\ Idle
    /\ req' = [tool |-> "get_mouse_position"]
    /\ pc' = "validate"
    /\ UNCHANGED <<system, trusted, mainpc, startupLog, todo, events, result, held>>

Call_move_mouse ==
    /\ Idle
    /\ \E cx \in Coords, cy \in Coords, rel \in BOOLEAN, d \in Durations :
        /\ req' = [tool |-> "move_mouse", duration |-> d, relative |-> rel, x |-> cx, y |-> cy]
        /\ pc' = "validate"
        /\ UNCHANGED <<system, trusted, mainpc, startupLog, todo, events, result, held>>

Call_click ==
    /\ Idle
    /\ \E cx \in Opt(Coords), cy \in Opt(Coords), b \in Buttons, n \in ClickCounts :
        /\ req' = [tool |-> "click", clicks |-> n, button |-> b, x |-> cx, y |-> cy]
        /\ pc' = "validate"
        /\ UNCHANGED <<system, trusted, mainpc, startupLog, todo, events, result, held>>

Call_scroll ==
    /\ Idle
    /\ \E n \in ScrollCounts, cx \in Opt(Coords), cy \in Opt(Coords) :
        /\ req' = [tool |-> "scroll", clicks |-> n, x |-> cx, y |-> cy]
        /\ pc' = "validate"
        /\ UNCHANGED <<system, trusted, mainpc, startupLog, todo, events, result, held>>

Call_drag ==
    /\ Idle
    /\ \E sx \in Coords, sy \in Coords, ex \in Coords, ey \in Coords,
          d \in DragDurations, b \in Buttons :
        /\ req' = [tool |-> "drag", duration |-> d, button |-> b,
                   start_x |-> sx, start_y |-> sy, end_x |-> ex, end_y |-> ey]
        /\ pc' = "validate"
        /\ UNCHANGED <<system, trusted, mainpc, startupLog, todo, events, result, held>>

Call_type_text ==
    /\ Idle
    /\ \E t \in Texts, i \in Durations :
        /\ req' = [tool |-> "type_text", interval |-> i, text |-> t]
        /\ pc' = "validate"
        /\ UNCHANGED <<system, trusted, mainpc, startupLog, todo, events, result, held>>

Call_press_key ==
    /\ Idle
    /\ \E k \in Keys, n \in ClickCounts :
        /\ req' = [tool |-> "press_key", presses |-> n, key |-> k]
        /\ pc' = "validate"
        /\ UNCHANGED <<system, trusted, mainpc, startupLog, todo, events, result, held>>

Call_hotkey ==
    /\ Idle
    /\ \E ks \in KeySeqs :
        /\ req' = [tool |-> "hotkey", keys |-> ks]
        /\ pc' = "validate"
        /\ UNCHANGED <<system, trusted, mainpc, startupLog, todo, events, result, held>>

Call_screenshot ==
    /\ Idle
    /\ \E rx \in Opt(Coords), ry \in Opt(Coords),
          rw \in Opt(1..MaxDim), rh \in Opt(1..MaxDim), red \in BOOLEAN :
        /\ req' = [tool |-> "screenshot", region_x |-> rx, region_y |-> ry,
                   region_width |-> rw, region_height |-> rh,
                   reduce_resolution |-> red]
        /\ pc' = "validate"
        /\ UNCHANGED <<system, trusted, mainpc, startupLog, todo, events, result, held>>

\* a parameter outside its Field constraint: the call is answered with a
\* validation error and the handler body does not run
Reject ==
    /\ pc = "validate"
    /\ InvalidFields(req) # {}
    /\ result' = [status |-> "invalid", fields |-> InvalidFields(req)]
    /\ pc' = "reply"
    /\ UNCHANGED <<system, trusted, mainpc, startupLog, req, todo, events, held>>

\* the parameters pass: the handler body starts
Enter ==
    /\ pc = "validate"
    /\ InvalidFields(req) = {}
    /\ todo' = Dispatch(req).calls
    /\ pc' = "exec"
    /\ UNCHANGED <<system, trusted, mainpc, startupLog, req, events, result, held>>

\* the next platform call of the body completes
StepOk ==
    /\ pc = "exec"
    /\ todo # <<>>
    /\ CanComplete(Head(todo))
    /\ events' = Append(events, Head(todo))
    /\ held' = HeldAfter(held, Head(todo))
    /\ todo' = Tail(todo)
    /\ UNCHANGED <<system, trusted, mainpc, startupLog, pc, req, result>>

\* the copy command exits with a non-zero status: with check=True this is a
\* CalledProcessError, without it subprocess.run just returns
StepCopyExitsNonZero ==
    /\ pc = "exec"
    /\ todo # <<>>
    /\ Head(todo).op = "copy"
    /\ IF Head(todo).args[4]
          THEN /\ result' = [status |-> "error", failed |-> Head(todo).op]
               /\ pc' = "reply"
               /\ UNCHANGED <<todo, events>>
          ELSE /\ events' = Append(events, Call("copy_nonzero", Head(todo).args))
               /\ todo' = Tail(todo)
               /\ UNCHANGED <<result, pc>>
    /\ UNCHANGED <<system, trusted, mainpc, startupLog, req, held>>

\* the next platform call raises (fail-safe corner, no display, unknown key
\* or button, missing executable, explicit raise): the exception leaves the
\* handler, the rest of the body is skipped, the caller gets a tool error
StepRaise ==
    /\ pc = "exec"
    /\ todo # <<>>
    /\ result' = [status |-> "error", failed |-> Head(todo).op]
    /\ pc' = "reply"
    /\ UNCHANGED <<system, trusted, mainpc, startupLog, req, todo, events, held>>

\* the body ran to its return statement
Return ==
    /\ pc = "exec"
    /\ todo = <<>>
    /\ result' = [status |-> "ok", value |-> Dispatch(req).ret]
    /\ pc' = "reply"
    /\ UNCHANGED <<system, trusted, mainpc, startupLog, req, todo, events, held>>

\* the reply is sent and the loop waits for the next call
Reply ==
    /\ pc = "reply"
    /\ pc' = "idle"
    /\ req' = NoReq
    /\ todo' = <<>>
    /\ events' = <<>>
    /\ result' = NoResult
    /\ UNCHANGED <<system, trusted, mainpc, startupLog, held>>

Next ==
    \/ Main_Enter \/ LoadLibrary \/ QueryTrust \/ OpenPane \/ PrintHint \/ McpRun
    \/ Call_get_screen_size \/ Call_get_mouse_position \/ Call_move_mouse
    \/ Call_click \/ Call_scroll \/ Call_drag \/ Call_type_text
    \/ Call_press_key \/ Call_hotkey \/ Call_screenshot
    \/ Reject \/ Enter \/ StepOk \/ StepCopyExitsNonZero \/ StepRaise
    \/ Return \/ Reply

Spec == Init /\ [][Next]_vars

\* ------------------------------------------------------------------------
\* Properties
\* ------------------------------------------------------------------------
OpsOf(ev) == [i \in 1..Len(ev) |-> ev[i].op]

IsPrefix(a, b) == Len(a) <= Len(b) /\ \A i \in 1..Len(a) : a[i] = b[i]

Serving(tool) == req.tool = tool /\ pc \in {"exec", "reply"}

Succeeded == pc = "reply" /\ result.status = "ok"

Failed == pc = "reply" /\ result.status = "error"

Rejected == pc = "reply" /\ result.status = "invalid"

AllAscii(text) == \A i \in 1..Len(text) : text[i] <= 127

PasteOps == <<"copy", "keyDown", "keyDown", "keyUp", "keyUp">>

\* C1: desktop_type_text takes exactly one of two paths. An all-ASCII text
\* (the empty one included) produces only per-character key events, in text
\* order and at the given interval, and never a clipboard write; a text with
\* a non-ASCII code point produces no per-character key event, only the
\* clipboard write followed by the platform's paste hotkey. A successful
\* call went through the whole of its path and reports Len(text).
C1_TypeTextPaths ==
    Serving("type_text") =>
        /\ AllAscii(req.text) =>
              /\ Len(events) <= Len(req.text)
              /\ \A i \in 1..Len(events) :
                    /\ events[i].op = "key"
                    /\ events[i].args = <<req.text[i], req.interval>>
              /\ Succeeded => Len(events) = Len(req.text)
        /\ ~AllAscii(req.text) =>
              /\ IsPrefix(OpsOf(events), PasteOps)
              /\ Succeeded =>
                    /\ OpsOf(events) = PasteOps
                    /\ events[1].args[3] = req.text
                    /\ events[2].args[1] = (IF system = "Darwin" THEN "command" ELSE "ctrl")
                    /\ events[3].args[1] = "v"
        /\ Succeeded => result.value = <<"Typed", Len(req.text)>>

C1_Witness ==
    /\ Serving("type_text")
    /\ Succeeded
    /\ req.text = <<65, 128>>
    /\ OpsOf(events) = PasteOps

C2_Inv ==
    (Serving("type_text") /\ ~AllAscii(req.text) /\ ~Rejected) =>
        /\ \A i \in 1..Len(events) :
              events[i].op \in {"keyDown", "keyUp"} => (i > 1 /\ events[1].op = "copy")
        /\ system \notin {"Darwin", "Linux", "Windows"} => events = <<>> /\ ~Succeeded
        /\ (pc = "reply" /\ (events = <<>> \/ events[1].op # "copy")) => Failed /\ events = <<>>

\* C2: in the clipboard path the paste hotkey is issued only after a
\* clipboard write that completed in the same call. When the copy command
\* fails, or the platform is not Darwin, Linux or Windows, the call ends in
\* an error with no paste key event and no success string; and a call that
\* ended, in whatever way, leaves the loop idle and still serving.
C2_PasteOnlyAfterCopy ==
    /\ []C2_Inv
    /\ [][(pc = "exec" /\ todo # <<>> /\ Head(todo).op \in {"copy", "raise"}
             /\ events' = events /\ pc' # pc)
          => (pc' = "reply" /\ result'.status = "error")]_vars
    /\ [][pc = "reply" => (pc' = "idle" /\ mainpc' = "serving")]_vars

C2_Witness ==
    /\ Serving("type_text")
    /\ ~AllAscii(req.text)
    /\ system = "Linux"
    /\ Failed
    /\ result.failed = "copy"
    /\ events = <<>>

\* the constraints the tool descriptions declare
OutsideDeclaredConstraint(r) ==
    \/ r.tool = "move_mouse" /\ r.duration < 0
    \/ r.tool = "type_text" /\ r.interval < 0
    \/ r.tool = "click" /\ r.clicks < 1
    \/ r.tool = "press_key" /\ r.presses < 1
    \/ r.tool \in {"click", "drag"} /\ r.button \notin {"left", "middle", "right"}

\* C3: a call with a parameter outside its declared constraint is rejected
\* with a validation error before the handler body issues any platform call.
C3_InvalidRejectedBeforePlatformCall ==
    (req.tool # "none" /\ OutsideDeclaredConstraint(req)) =>
        /\ pc # "exec"
        /\ events = <<>>
        /\ pc = "reply" => result.status = "invalid"

\* C4: desktop_drag rejects every duration below 0.1 s with a validation
\* error naming the field and without any platform call, accepts exactly
\* 0.1 s, and no drag or move of a drag call gets a duration below 0.1 s.
C4_DragDurationFloor ==
    req.tool = "drag" =>
        /\ req.duration < 100 =>
              /\ pc \in {"validate", "reply"}
              /\ events = <<>> /\ todo = <<>>
              /\ pc = "reply" => (Rejected /\ result.fields = {"duration"})
        /\ req.duration >= 100 => ~Rejected
        /\ \A i \in 1..Len(events) :
              events[i].op \in {"moveTo", "moveRel"} => events[i].args[3] >= 100
        /\ \A i \in 1..Len(todo) :
              todo[i].op \in {"moveTo", "moveRel"} => todo[i].args[3] >= 100

C4_Witness ==
    /\ req.tool = "drag"
    /\ req.duration = 99
    /\ Rejected
    /\ events = <<>>

\* C5: desktop_hotkey issues the key-downs in the given order and then the
\* key-ups in exactly the reverse order, so no key-up precedes the last
\* key-down; the returned string is the keys joined by "+" in the given order.
C5_HotkeyOrder ==
    Serving("hotkey") =>
        LET n == Len(req.keys)
        IN  /\ Len(events) <= 2 * n
            /\ \A i \in 1..Len(events) :
                  IF i <= n
                     THEN events[i].op = "keyDown" /\ events[i].args[1] = req.keys[i]
                     ELSE events[i].op = "keyUp" /\ events[i].args[1] = req.keys[2 * n + 1 - i]
            /\ Succeeded =>
                  /\ Len(events) = 2 * n
                  /\ LET combo == result.value[2]
                     IN  /\ Len(combo) = (IF n = 0 THEN 0 ELSE 2 * n - 1)
                         /\ \A j \in 1..n : combo[2 * j - 1] = req.keys[j]
                         /\ \A j \in 1..(n - 1) : combo[2 * j] = "+"

C5_Witness ==
    /\ Serving("hotkey")
    /\ Succeeded
    /\ req.keys = <<"ctrl", "shift", "t">>
    /\ Len(events) = 6

FourSupplied(r) ==
    /\ r.region_x # <<>>
    /\ r.region_y # <<>>
    /\ r.region_width # <<>>
    /\ r.region_height # <<>>

\* C6: desktop_screenshot captures the requested rectangle iff all four
\* region fields are supplied and the full screen otherwise; the returned
\* image measures floor(w/2) x floor(h/2) of the captured image when
\* reduce_resolution is true and w x h when it is false.
C6_ScreenshotRegionAndSize ==
    (Serving("screenshot") /\ events # <<>>) =>
        LET cap == IF FourSupplied(req)
                      THEN <<req.region_width[1], req.region_height[1]>>
                      ELSE ScreenSize
        IN  /\ events[1].op = "screenshot"
            /\ FourSupplied(req) =>
                  events[1].args[1] = <<req.region_x[1], req.region_y[1],
                                        req.region_width[1], req.region_height[1]>>
            /\ ~FourSupplied(req) => events[1].args[1] = <<>>
            /\ Succeeded =>
                  IF req.reduce_resolution
                     THEN \A k \in 1..2 :
                            /\ 2 * result.value.size[k] <= cap[k]
                            /\ cap[k] < 2 * result.value.size[k] + 2
                     ELSE result.value.size = cap

C6_Witness ==
    /\ Serving("screenshot")
    /\ Succeeded
    /\ req.region_x = <<>>
    /\ req.region_y # <<>> /\ req.region_width # <<>> /\ req.region_height # <<>>
    /\ req.reduce_resolution
    /\ result.value.size = <<ScreenSize[1] \div 2, ScreenSize[2] \div 2>>

\* C7: startup reaches the request loop whatever the outcome of permission
\* priming: main never ends before mcp.run.
C7_StartupReachesLoop == mainpc # "crashed"

Count(s, e) == Cardinality({i \in 1..Len(s) : s[i] = e})

PrimingReturned == mainpc \in {"run", "serving"}

C8_Inv ==
    /\ system # "Darwin" => startupLog = <<>>
    /\ "open_pane" \in Range(startupLog) => ~trusted
    /\ Count(startupLog, "AXIsProcessTrusted") <= 1
    /\ Count(startupLog, "open_pane") <= 1
    /\ Range(startupLog) \subseteq
          {"AXIsProcessTrusted", "print_diagnostic", "open_pane", "print_hint"}
    /\ (system = "Darwin" /\ PrimingReturned) =>
          /\ Count(startupLog, "AXIsProcessTrusted") = 1
          /\ "open_pane" \in Range(startupLog) <=> ~trusted
          /\ Count(startupLog, "print_hint") = 1

C9_ScrollReport ==
    Serving("scroll") =>
        /\ \A i \in 1..Len(events) :
              /\ i = 1
              /\ events[i].op = "scroll"
              /\ events[i].args = <<req.clicks, req.x, req.y>>
        /\ Succeeded =>
              /\ Len(events) = 1
              /\ req.clicks > 0 => result.value.direction = "up"
              /\ req.clicks < 0 => result.value.direction = "down"
              /\ result.value.magnitude >= 0
              /\ result.value.magnitude \in {req.clicks, 0 - req.clicks}

C9_Witness ==
    /\ Serving("scroll")
    /\ Succeeded
    /\ req.clicks = -2
    /\ req.x = <<>>

DragOps == <<"moveTo", "mouseDown", "moveRel", "mouseUp">>

C10_Inv ==
    Serving("drag") =>
        /\ IsPrefix(OpsOf(events), DragOps)
        /\ \A i \in 1..Len(events) :
              /\ i = 1 => (events[i].args[1] = req.start_x /\ events[i].args[2] = req.start_y)
              /\ i \in {2, 4} => events[i].args[1] = req.button
              /\ i = 3 => /\ events[i].args[1] = req.end_x - req.start_x
                          /\ events[i].args[2] = req.end_y - req.start_y
        /\ Succeeded => Len(events) = 4
        /\ Failed => Len(events) < 4
        /\ Len(events) \in {2, 3} => req.button \in held

\* C10: a valid desktop_drag moves to the start point, presses the button,
\* moves by (end - start) and releases, in this order, and succeeds only
\* after all four. When a step fails the call fails, no later step runs and
\* nothing is undone: a button pressed before the failure is still held when
\* the call ends.
C10_DragSteps ==
    /\ []C10_Inv
    /\ [][(Serving("drag") /\ pc = "exec" /\ pc' = "reply" /\ Len(events) < 4)
          => (result'.status = "error" /\ events' = events /\ held' = held)]_vars
    /\ [][pc = "reply" => held' = held]_vars

C10_Witness ==
    /\ Serving("drag")
    /\ Failed
    /\ OpsOf(events) = <<"moveTo", "mouseDown">>
    /\ req.button \in held

====
